---- MODULE Spec2Model ----
(***************************************************************************)
(* Relationship layer of the ORM: the many-to-many query builder with its  *)
(* pivot helpers, the belongs-to query client (associate/dissociate), and   *)
(* the offset/limit paginator (SimplePaginator).                           *)
(*                                                                         *)
(* Column references are sequences of tokens: <<"status">> is the bare     *)
(* column `status`, <<"skills", ".", "status">> is `skills.status`.        *)
(***************************************************************************)
EXTENDS Integers, Sequences, FiniteSets, TLC

VARIABLES
    builders,   \* the many-to-many builders alive: the original, then its clones
    parent,     \* the parent reference the builders share: one row or a row list
    issued,     \* the queries the last paginate call handed to the engine
    outcome,    \* how the last paginate call ended: "none", "error", "paginator"
    calls,      \* the number of chained builder calls made so far
    pc,         \* the belongs-to client's position in associate / dissociate
    call,       \* the running call: its transaction and whether it opened it
    parentRow,  \* the parent record in memory: foreign key, $trx
    relatedRow, \* the related record in memory: key, $trx, persisted
    trxs,       \* the transactions: state, pending writes, who ended them
    db,         \* what is committed: the parent's foreign key, the related keys
    saves,      \* the save() calls made so far: record, transaction, result
    events,     \* the steps of the running associate, in the order they happened
    thrown,     \* the error the call handed to its caller ("none" when none)
    paginator,  \* the SimplePaginator: its fields, its base url and query string
    returned    \* the last paginator call: its name and what it returned

m2mVars == <<builders, parent, issued, outcome, calls>>
assocVars == <<pc, call, parentRow, relatedRow, trxs, db, saves, events, thrown>>
pagVars == <<paginator, returned>>
vars == <<m2mVars, assocVars, pagVars>>

----------------------------------------------------------------------------
\* Bounds of the model

MaxBuilders == 2
MaxUserCalls == 1
MaxParentRows == 2
MaxTotal == 3
MaxPerPage == 2
MaxPage == 3

----------------------------------------------------------------------------
\* The relation descriptor (ManyToMany) the builders are bound to

relatedTable == "skills"
pivotTable == "skill_user"
pivotForeignKey == <<"user_id">>
pivotRelatedForeignKey == <<"skill_id">>
relatedKeyColumnName == <<"id">>
relationPivotColumns == << <<"proficiency">> >>
relationPivotTimestamps == << <<"created_at">> >>

\* Argument values are tagged token sequences, so that any two compare
Undefined == <<"undefined">>
Val(v) == <<"val", v>>
List(vs) == <<"list">> \o vs
Star == <<"*">>

\* getValue(model, relation.localKey, ...): the row's local-key value
getValue(row) == ToString(row)

pivotAlias(column) == <<"pivot_">> \o column

resolveKey(column) == column

\* String.prototype.includes('.') on a column reference
Includes(column, tok) == \E i \in 1..Len(column) : column[i] = tok

\* (mutant) unique keeping every value, repeated ones included
uniqueKeepAll(values) == values

\* Array.from(new Set(values)): first occurrences, in order
RECURSIVE unique(_)
unique(values) ==
    IF values = <<>> THEN <<>>
    ELSE LET init == unique(SubSeq(values, 1, Len(values) - 1))
             last == values[Len(values)]
         IN IF \E i \in 1..Len(init) : init[i] = last THEN init
            ELSE Append(init, last)

----------------------------------------------------------------------------
\* The generic (base) builder the many-to-many builder extends

DefinedArgs(args) == SelectSeq(args, LAMBDA a : a # Undefined)

\* super.where / orWhere / whereIn / whereNull ...: one more predicate
baseWhere(q, method, key, args) ==
    [q EXCEPT !.wheres = Append(@, [method |-> method, key |-> key,
                                    args |-> DefinedArgs(args)])]

knexSelect(q, columns) == [q EXCEPT !.selects = @ \o columns]

from(q, table) == [q EXCEPT !.table = table]

innerJoin(q, table, left, right) ==
    [q EXCEPT !.joins = Append(@, [table |-> table, left |-> left, right |-> right])]

queryAction(q) == q.action

wrapExisting(q) == q

----------------------------------------------------------------------------
\* ManyToManyQueryBuilder and PivotHelpers

prefixRelatedTable(column) ==
    IF Includes(column, ".") THEN column ELSE <<relatedTable, ".">> \o column

\* (mutant) prefixPivotTable treating every query as pivot-only
prefixPivotTableBare(q, column) == column

prefixPivotTable(q, column) ==
    IF Includes(column, ".") THEN column
    ELSE IF q.pivotQuery THEN column
    ELSE <<pivotTable, ".">> \o column

\* where, orWhere, whereNot, orWhereNot, whereIn, ..., whereNull, ... of the
\* many-to-many builder: each prefixes the related table, then calls super
builderWhere(q, method, key, operator, value) ==
    baseWhere(q, method, prefixRelatedTable(key), <<operator, value>>)

WhereMethod(variation) ==
    CASE variation = "or" -> "orWhere"
      [] variation = "not" -> "whereNot"
      [] variation = "orNot" -> "orWhereNot"
      [] OTHER -> "where"

WhereNullMethod(variation) ==
    CASE variation = "or" -> "orWhereNull"
      [] variation = "not" -> "whereNotNull"
      [] variation = "orNot" -> "orWhereNotNull"
      [] OTHER -> "whereNull"

WhereInMethod(variation) ==
    CASE variation = "or" -> "orWhereIn"
      [] variation = "not" -> "whereNotIn"
      [] variation = "orNot" -> "orWhereNotIn"
      [] OTHER -> "whereIn"

wherePivot(q, variation, key, operator, value) ==
    IF value # Undefined
      THEN builderWhere(q, WhereMethod(variation), prefixPivotTable(q, key), operator, value)
    ELSE IF operator # Undefined
      THEN builderWhere(q, WhereMethod(variation), prefixPivotTable(q, key), operator, Undefined)
    ELSE builderWhere(q, WhereMethod(variation), key, Undefined, Undefined)

whereNullPivot(q, variation, key) ==
    builderWhere(q, WhereNullMethod(variation), prefixPivotTable(q, key), Undefined, Undefined)

whereInPivot(q, variation, key, value) ==
    builderWhere(q, WhereInMethod(variation), prefixPivotTable(q, key), value, Undefined)

\* aliasSelectColumns is true for the helper of the (non sub-query) builder
pivotColumns(q, columns) ==
    knexSelect(q, [i \in 1..Len(columns) |->
        prefixPivotTable(q, columns[i]) \o <<" as ">> \o pivotAlias(columns[i])])

transformRelatedTableColumns(q, columns) ==
    IF q.pivotQuery THEN columns
    ELSE [i \in 1..Len(columns) |-> prefixRelatedTable(resolveKey(columns[i]))]

select(q, columns) ==
    knexSelect([q EXCEPT !.cherryPickingKeys = TRUE],
               transformRelatedTableColumns(q, columns))

IsRowList(p) == p.kind = "rows"

addWhereConstraints(q, p) ==
    IF IsRowList(p)
      THEN whereInPivot(wrapExisting(q), "and", pivotForeignKey,
                        List(unique([i \in 1..Len(p.rows) |-> getValue(p.rows[i])])))
      ELSE wherePivot(wrapExisting(q), "and", pivotForeignKey,
                      Val(getValue(p.rows[1])), Undefined)

\* applyConstraints past its guard: the flag, then the pivot-only / update /
\* delete branch or the selects, the join and the pivot predicate
constrain(q, p) ==
    LET q1 == [q EXCEPT !.appliedConstraints = TRUE]
    IN IF q1.pivotQuery \/ queryAction(q1) \in {"delete", "update"}
         THEN addWhereConstraints(from(q1, pivotTable), p)
         ELSE LET q2 == IF q1.cherryPickingKeys THEN q1 ELSE select(q1, <<Star>>)
                  q3 == IF q1.hasAggregates THEN q1
                        ELSE pivotColumns(q2,
                               <<pivotForeignKey, pivotRelatedForeignKey>>
                                 \o relationPivotColumns \o relationPivotTimestamps)
                  q4 == innerJoin(q3, pivotTable,
                                  <<relatedTable, ".">> \o relatedKeyColumnName,
                                  <<pivotTable, ".">> \o pivotRelatedForeignKey)
              IN addWhereConstraints(q4, p)

\* (mutant) applyConstraints without its one-shot guard
applyConstraintsUnguarded(q, p) == constrain(q, p)

applyConstraints(q, p) ==
    IF q.appliedConstraints THEN q ELSE constrain(q, p)

\* isPivotOnlyQuery setter: a pivot-only query returns plain objects
setIsPivotOnlyQuery(q, pivotOnly) ==
    [q EXCEPT !.pivotQuery = pivotOnly, !.pojo = @ \/ pivotOnly]

\* new ManyToManyQueryBuilder(knexQuery, ...): the field initialisers
NewBuilder(k) ==
    [pivotQuery |-> FALSE, pojo |-> FALSE, cherryPickingKeys |-> FALSE,
     appliedConstraints |-> FALSE, isRelatedPreloadQuery |-> FALSE,
     hasAggregates |-> k.hasAggregates, action |-> k.action,
     table |-> k.table, selects |-> k.selects, joins |-> k.joins, wheres |-> k.wheres]

\* this.applyQueryFlags(clonedQuery): the generic builder's flags
applyQueryFlags(q, cloned) == [cloned EXCEPT !.pojo = q.pojo]

\* clone(): the builder after the call (constraints applied) and the clone
cloneSource(q, p) == applyConstraints(q, p)

\* (mutant) a clone that starts over with its constraints not applied
cloneResetApplied(q, p) ==
    LET src == cloneSource(q, p)
        c0 == applyQueryFlags(src, NewBuilder(src))
        c1 == setIsPivotOnlyQuery(c0, src.pivotQuery)
    IN [c1 EXCEPT !.cherryPickingKeys = src.cherryPickingKeys,
                  !.isRelatedPreloadQuery = src.isRelatedPreloadQuery]

clone(q, p) ==
    LET src == cloneSource(q, p)
        c0 == applyQueryFlags(src, NewBuilder(src))
        c1 == setIsPivotOnlyQuery(c0, src.pivotQuery)
    IN [c1 EXCEPT !.cherryPickingKeys = src.cherryPickingKeys,
                  !.appliedConstraints = src.appliedConstraints,
                  !.isRelatedPreloadQuery = src.isRelatedPreloadQuery]

DefaultPerPage == 20

\* super.paginate(page, perPage): a count query, then the limited row query
genericPaginate(q, page, perPage) ==
    << [kind |-> "count", table |-> q.table, joins |-> Len(q.joins)],
       [kind |-> "rows", table |-> q.table, joins |-> Len(q.joins),
        limit |-> perPage, offset |-> (page - 1) * perPage] >>

\* paginate(page, perPage = 20): the builder, the queries issued, the outcome
\* (mutant) paginate applying the constraints before it checks for preload
paginateApplyFirst(q, p, page, perPageArg) ==
    LET perPage == IF perPageArg = <<>> THEN DefaultPerPage ELSE perPageArg[1]
        q1 == applyConstraints(q, p)
    IN IF q.isRelatedPreloadQuery
         THEN [builder |-> q1, issued |-> <<>>, outcome |-> "error"]
         ELSE [builder |-> q1, issued |-> genericPaginate(q1, page, perPage),
               outcome |-> "paginator"]

\* (perPageArg is the rest of the argument list: empty when perPage is omitted)
paginate(q, p, page, perPageArg) ==
    LET perPage == IF perPageArg = <<>> THEN DefaultPerPage ELSE perPageArg[1]
    IN IF q.isRelatedPreloadQuery
         THEN [builder |-> q, issued |-> <<>>, outcome |-> "error"]
         ELSE LET q1 == applyConstraints(q, p)
              IN [builder |-> q1, issued |-> genericPaginate(q1, page, perPage),
                  outcome |-> "paginator"]

----------------------------------------------------------------------------
\* Records, transactions and persistence, as the belongs-to client uses them

Null == "null"
NoTrx == "none"
CallerTrx == "caller"       \* a transaction the caller attached to the parent
ClientTrx == "client"       \* the transaction client.transaction() opens
TrxIds == {CallerTrx, ClientTrx}
UnusedTrx == [state |-> "unused", writes |-> <<>>, endedBy |-> "none"]
OpenTrx == [state |-> "open", writes |-> <<>>, endedBy |-> "none"]
NoCall == [op |-> "none", trx |-> NoTrx, managed |-> FALSE, error |-> "none"]

SavedRelatedKey == "k3"     \* the key of a related record saved earlier
GeneratedKey == "k5"        \* the key an insert of the related record generates
OldForeignKey == "k9"       \* a foreign key the parent may hold beforehand

\* A write reaching the committed data
ApplyWrite(d, w) ==
    IF w.rec = "related"
      THEN [d EXCEPT !.related = @ \cup {w.value}, !.writes = Append(@, w)]
      ELSE [d EXCEPT !.parentFk = w.value, !.writes = Append(@, w)]

RECURSIVE ApplyWrites(_, _)
ApplyWrites(d, ws) ==
    IF ws = <<>> THEN d ELSE ApplyWrites(ApplyWrite(d, Head(ws)), Tail(ws))

\* record.save() succeeding: the write is pending in the record's transaction,
\* or committed at once when the record carries none
saveInto(ts, d, trx, w) ==
    IF trx = NoTrx
      THEN [trxs |-> ts, db |-> ApplyWrite(d, w)]
      ELSE [trxs |-> [ts EXCEPT ![trx].writes = Append(@, w)], db |-> d]

commit(ts, d, trx, by) ==
    [trxs |-> [ts EXCEPT ![trx] = [state |-> "committed", writes |-> <<>>, endedBy |-> by]],
     db |-> ApplyWrites(d, ts[trx].writes)]

rollback(ts, d, trx, by) ==
    [trxs |-> [ts EXCEPT ![trx] = [state |-> "rolledback", writes |-> <<>>, endedBy |-> by]],
     db |-> d]

\* relation.hydrateForPersistence(parent, related)
hydrateForPersistence(p, r) == [p EXCEPT !.fk = r.key]

\* managedTransaction(client, callback): the transaction handed to the callback
managedTransaction(source) ==
    IF source # NoTrx
      THEN [trx |-> source, managed |-> FALSE]
      ELSE [trx |-> ClientTrx, managed |-> TRUE]

----------------------------------------------------------------------------
\* The many-to-many builder as a state machine

Variations == {"and", "or", "not", "orNot"}
UserColumns == { <<"status">>, <<"skill_user", ".", "status">> }
UserValue == Val("active")
UserOperator == Val("<>")
Arities == {2, 3}
\* paginate(1) and paginate(2, 5)
PaginateArgs == { <<1>>, <<2, 5>> }

RECURSIVE SeqsUpTo(_, _)
SeqsUpTo(S, n) ==
    IF n = 0 THEN { <<>> }
    ELSE LET shorter == SeqsUpTo(S, n - 1)
         IN shorter \cup { Append(s, x) : s \in shorter, x \in S }

\* One parent row, or a list of MaxParentRows rows (repeated keys included)
ParentKeys == {1, 2}
ParentChoices ==
    { [kind |-> "row", rows |-> <<1>>] }
      \cup { [kind |-> "rows", rows |-> s] :
               s \in { t \in SeqsUpTo(ParentKeys, MaxParentRows) :
                         Len(t) = MaxParentRows /\ t[1] = 1 } }

\* relation.query() / relation.eagerQuery(): a fresh builder over the related table
FreshBuilder(preload) ==
    [NewBuilder([hasAggregates |-> FALSE, action |-> "select",
                 table |-> relatedTable, selects |-> <<>>, joins |-> <<>>,
                 wheres |-> <<>>])
       EXCEPT !.isRelatedPreloadQuery = preload]

\* No paginator constructed (the builder and client specifications)
NoPaginator == [constructed |-> FALSE]
NoReturn == [op |-> "none"]
PaginatorQuiet == paginator = NoPaginator /\ returned = NoReturn

\* The belongs-to client at rest (the builder specifications leave it there)
AssocQuiet ==
    /\ pc = "idle"
    /\ call = NoCall
    /\ parentRow = [fk |-> Null, trx |-> NoTrx]
    /\ relatedRow = [key |-> Null, trx |-> NoTrx, persisted |-> FALSE]
    /\ trxs = [t \in TrxIds |-> UnusedTrx]
    /\ db = [parentFk |-> Null, related |-> {}, writes |-> <<>>]
    /\ saves = <<>>
    /\ events = <<>>
    /\ thrown = "none"

InitM2M ==
    /\ AssocQuiet
    /\ PaginatorQuiet
    /\ parent \in ParentChoices
    /\ \E preload \in BOOLEAN : builders = << FreshBuilder(preload) >>
    /\ issued = <<>>
    /\ outcome = "none"
    /\ calls = 0

Builders == 1..Len(builders)

CanCall == calls < MaxUserCalls

Put(b, q) ==
    /\ builders' = [builders EXCEPT ![b] = q]
    /\ UNCHANGED <<parent, issued, outcome, assocVars, pagVars>>

Call(b, q) ==
    /\ CanCall
    /\ calls' = calls + 1
    /\ Put(b, q)

Where(b) ==
    \E key \in UserColumns, arity \in Arities :
         Call(b, (IF arity = 3
                         THEN builderWhere(builders[b], "where", key, UserOperator, UserValue)
                         ELSE builderWhere(builders[b], "where", key, UserValue, Undefined)))

WherePivot(b) ==
    \E variation \in Variations, key \in UserColumns, arity \in Arities :
         Call(b, (IF arity = 3
                         THEN wherePivot(builders[b], variation, key, UserOperator, UserValue)
                         ELSE wherePivot(builders[b], variation, key, UserValue, Undefined)))

WhereInPivot(b) ==
    \E variation \in Variations, key \in UserColumns :
         Call(b, (whereInPivot(builders[b], variation, key, List(<<"active">>))))

WhereNullPivot(b) ==
    \E variation \in Variations, key \in UserColumns :
         Call(b, (whereNullPivot(builders[b], variation, key)))

Select(b) ==
    \E column \in UserColumns : Call(b, (select(builders[b], <<column>>)))

SetPivotOnly(b) ==
    \E pivotOnly \in BOOLEAN : Call(b, (setIsPivotOnlyQuery(builders[b], pivotOnly)))

\* update(...) / del() / count(...) of the generic builder
SetAction(b) ==
    \E action \in {"update", "delete"} :
         Call(b, ([builders[b] EXCEPT !.action = action]))

Count(b) ==
    Call(b, ([builders[b] EXCEPT !.hasAggregates = TRUE]))

\* exec() / toSQL(): constraints are applied before the query is generated
ApplyConstraints(b) ==
    /\ Put(b, applyConstraints(builders[b], parent))
    /\ UNCHANGED calls

Clone(b) ==
    /\ Len(builders) < MaxBuilders
    /\ builders' = Append([builders EXCEPT ![b] = cloneSource(@, parent)],
                          clone(builders[b], parent))
    /\ UNCHANGED <<parent, issued, outcome, calls, assocVars, pagVars>>

Paginate(b) ==
    /\ \E args \in PaginateArgs :
         LET r == paginate(builders[b], parent, Head(args), Tail(args))
         IN /\ builders' = [builders EXCEPT ![b] = r.builder]
            /\ issued' = r.issued
            /\ outcome' = r.outcome
    /\ UNCHANGED <<parent, calls, assocVars, pagVars>>

NextM2M ==
    \/ \E b \in Builders : Where(b)
    \/ \E b \in Builders : WherePivot(b)
    \/ \E b \in Builders : WhereInPivot(b)
    \/ \E b \in Builders : WhereNullPivot(b)
    \/ \E b \in Builders : Select(b)
    \/ \E b \in Builders : SetPivotOnly(b)
    \/ \E b \in Builders : SetAction(b)
    \/ \E b \in Builders : Count(b)
    \/ \E b \in Builders : ApplyConstraints(b)
    \/ \E b \in Builders : Clone(b)
    \/ \E b \in Builders : Paginate(b)

SpecM2M == InitM2M /\ [][NextM2M]_vars

----------------------------------------------------------------------------
\* Properties of the many-to-many builder

LastWhere(q) == q.wheres[Len(q.wheres)]

JoinsToPivot(q) == Cardinality({ i \in 1..Len(q.joins) : q.joins[i].table = pivotTable })

PivotKeyPredicates(q) ==
    Cardinality({ i \in 1..Len(q.wheres) :
                    q.wheres[i].key = <<pivotTable, ".">> \o pivotForeignKey })

BareColumns == { c \in UserColumns \cup {pivotForeignKey} : ~Includes(c, ".") }
DottedColumns == { c \in UserColumns : Includes(c, ".") }

\* C1: for every builder the program can reach (pivot-only or not, cherry-picking
\* or not, one parent row or a row list), applying the constraints a second time
\* leaves the builder, and so its generated query (table, selects, join,
\* predicates), exactly as the first application left it.
C1_ApplyConstraintsIdempotent ==
    \A b \in Builders :
       LET once == applyConstraints(builders[b], parent)
       IN applyConstraints(once, parent) = once

\* a builder over a row list whose constraints (selects, join, IN predicate)
\* are in place, where a further applyConstraints changes nothing
C1_Witness ==
    \E b \in Builders :
       /\ builders[b].appliedConstraints
       /\ IsRowList(parent)
       /\ JoinsToPivot(builders[b]) = 1
       /\ builders[b].cherryPickingKeys
       /\ applyConstraints(builders[b], parent) = builders[b]

C3_WhereAndWherePivotQualify ==
    \A b \in Builders :
       ~builders[b].pivotQuery =>
         /\ \A c \in BareColumns :
              LET w == LastWhere(builderWhere(builders[b], "where", c, UserValue, Undefined)).key
                  wp == LastWhere(wherePivot(builders[b], "and", c, UserValue, Undefined)).key
              IN /\ w = <<relatedTable, ".">> \o c
                 /\ wp = <<pivotTable, ".">> \o c
                 /\ w[1] # wp[1]
         /\ \A c \in DottedColumns :
              /\ LastWhere(builderWhere(builders[b], "where", c, UserValue, Undefined)).key = c
              /\ LastWhere(wherePivot(builders[b], "and", c, UserValue, Undefined)).key = c

\* wherePivot('status', 'active') was called on a builder that is not pivot-only
C3_Witness ==
    \E b \in Builders :
       /\ ~builders[b].pivotQuery
       /\ calls = 1
       /\ \E i \in 1..Len(builders[b].wheres) :
            /\ builders[b].wheres[i].key = <<pivotTable, ".", "status">>
            /\ builders[b].wheres[i].method = "where"

\* C4 (as claimed): on a pivot-only builder a bare column handed to wherePivot,
\* whereInPivot, whereNullPivot (any variation), and the pivot foreign key of
\* the predicate applyConstraints adds, appear bare in the predicate.
C4_PivotOnlyKeepsColumnsBare ==
    \A b \in Builders :
       builders[b].pivotQuery =>
         /\ \A c \in BareColumns, v \in Variations :
              /\ LastWhere(wherePivot(builders[b], v, c, UserValue, Undefined)).key = c
              /\ LastWhere(whereInPivot(builders[b], v, c, List(<<"active">>))).key = c
              /\ LastWhere(whereNullPivot(builders[b], v, c)).key = c
         /\ LastWhere(addWhereConstraints(builders[b], parent)).key = pivotForeignKey

\* C5 (as claimed): a constrained builder that is pivot-only, or whose action
\* is update or delete, targets the pivot table with no join and no selects of
\* its own making, whatever the order of the calls.
C5_PivotOnlyOrWriteHasNoJoin ==
    \A b \in Builders :
       ( /\ builders[b].appliedConstraints
         /\ builders[b].pivotQuery \/ queryAction(builders[b]) \in {"update", "delete"} )
       => /\ builders[b].table = pivotTable
          /\ builders[b].joins = <<>>
          /\ \A i \in 1..Len(builders[b].selects) :
                builders[b].selects[i] \in UserColumns

\* C6: paginate on a preload builder ends in the usage error with the builder
\* (flag and query) untouched and no query issued; on any other builder it
\* leaves the constraints applied and issues the count and the row query.
C6_PaginateOnPreloadFails ==
    /\ \A b \in Builders, args \in PaginateArgs :
         LET r == paginate(builders[b], parent, Head(args), Tail(args))
         IN IF builders[b].isRelatedPreloadQuery
              THEN /\ r.outcome = "error"
                   /\ r.builder = builders[b]
                   /\ r.issued = <<>>
              ELSE /\ r.outcome = "paginator"
                   /\ r.builder.appliedConstraints
                   /\ JoinsToPivot(r.builder) + (IF r.builder.table = pivotTable THEN 1 ELSE 0) >= 1
                   /\ [i \in 1..Len(r.issued) |-> r.issued[i].kind] = <<"count", "rows">>
    /\ outcome = "error" => issued = <<>> /\ builders[1].isRelatedPreloadQuery
    /\ outcome = "paginator" =>
         /\ Len(issued) = 2
         /\ \E b \in Builders : builders[b].appliedConstraints

\* paginate failed on a preload builder whose constraints are still unapplied
C6_Witness ==
    /\ outcome = "error"
    /\ issued = <<>>
    /\ \E b \in Builders :
         builders[b].isRelatedPreloadQuery /\ ~builders[b].appliedConstraints

\* The column names of the two pivot keys
PivotKeyNames == { pivotForeignKey[1], pivotRelatedForeignKey[1] }

\* Every mention of a pivot key in the column expression (its alias after
\* "pivot_" aside) is written pivotTable.key
PivotKeysQualified(column) ==
    \A i \in 1..Len(column) :
       (column[i] \in PivotKeyNames /\ (i = 1 \/ column[i - 1] # "pivot_"))
         => (i >= 3 /\ column[i - 1] = "." /\ column[i - 2] = pivotTable)

JoinActive(q) == JoinsToPivot(q) >= 1

\* C16 (as claimed): on every reachable builder whose join to the pivot table
\* is active, the pivot foreign key and the pivot related-foreign key are
\* written with the pivot table's name wherever the query mentions them: in
\* the select list, in the join condition, in the predicates it holds, and in
\* the predicate a further wherePivot / whereInPivot / whereNullPivot call on
\* one of the two keys adds.
C16_PivotKeysQualifiedUnderJoin ==
    \A b \in Builders :
       JoinActive(builders[b]) =>
         /\ \A i \in 1..Len(builders[b].selects) :
               PivotKeysQualified(builders[b].selects[i])
         /\ \A i \in 1..Len(builders[b].joins) :
               /\ PivotKeysQualified(builders[b].joins[i].left)
               /\ PivotKeysQualified(builders[b].joins[i].right)
         /\ \A i \in 1..Len(builders[b].wheres) :
               PivotKeysQualified(builders[b].wheres[i].key)
         /\ \A k \in {pivotForeignKey, pivotRelatedForeignKey}, v \in Variations :
               /\ PivotKeysQualified(
                     LastWhere(wherePivot(builders[b], v, k, UserValue, Undefined)).key)
               /\ PivotKeysQualified(
                     LastWhere(whereInPivot(builders[b], v, k, List(<<"active">>))).key)
               /\ PivotKeysQualified(
                     LastWhere(whereNullPivot(builders[b], v, k)).key)

\* The predicates of the builder on the pivot foreign key
ForeignKeyPredicates(q) ==
    { i \in 1..Len(q.wheres) :
        q.wheres[i].key[Len(q.wheres[i].key)] = pivotForeignKey[1] }

ParentKeyValues == { getValue(parent.rows[i]) : i \in 1..Len(parent.rows) }

\* C17: a builder whose constraints are applied holds one predicate on the
\* pivot foreign key. For a single parent row it is an equality (where) with
\* the row's local-key value; for a row list it is a whereIn whose list holds
\* every distinct local-key value of the rows once: none repeated, none missing.
C17_PivotPredicateFollowsParent ==
    \A b \in Builders :
       builders[b].appliedConstraints =>
         /\ Cardinality(ForeignKeyPredicates(builders[b])) = 1
         /\ \A i \in ForeignKeyPredicates(builders[b]) :
               LET w == builders[b].wheres[i]
               IN IF IsRowList(parent)
                    THEN /\ w.method = "whereIn"
                         /\ Len(w.args) = 1
                         /\ Head(w.args[1]) = "list"
                         /\ LET vs == Tail(w.args[1])
                            IN /\ \A m, n \in 1..Len(vs) : vs[m] = vs[n] => m = n
                               /\ { vs[m] : m \in 1..Len(vs) } = ParentKeyValues
                    ELSE /\ w.method = "where"
                         /\ w.args = << Val(getValue(parent.rows[1])) >>

\* the constraints were applied for a row list in which a key is repeated
C17_Witness ==
    /\ IsRowList(parent)
    /\ Cardinality(ParentKeyValues) < Len(parent.rows)
    /\ \E b \in Builders :
         /\ builders[b].appliedConstraints
         /\ \E i \in ForeignKeyPredicates(builders[b]) :
              builders[b].wheres[i].method = "whereIn"

----------------------------------------------------------------------------
\* BelongsToQueryClient.associate and dissociate

\* (mutant) associate always handing the plain client to managedTransaction
transactionSourceClient(p) == NoTrx

\* this.parent.$trx || this.client   (NoTrx stands for the plain client)
transactionSource(p) == p.trx

\* (mutant) the parent hydrated before the related record is saved
AssociateOrderHydrateFirst ==
    <<"relatedTrx", "hydrate", "relatedSave", "parentTrx", "parentSave">>

\* The statements of associate's callback, in program order
AssociateOrder == <<"relatedTrx", "relatedSave", "hydrate", "parentTrx", "parentSave">>

StepAt(n) == IF n <= Len(AssociateOrder) THEN AssociateOrder[n] ELSE "return"

AtStep(name) == pc = "associate" /\ StepAt(Len(events) + 1) = name

Done(name) == events' = Append(events, name)

\* The builders at rest (the client specification leaves them there)
M2MQuiet ==
    /\ builders = <<>>
    /\ parent = [kind |-> "row", rows |-> <<1>>]
    /\ issued = <<>>
    /\ outcome = "none"
    /\ calls = 0

InitAssoc ==
    /\ M2MQuiet
    /\ PaginatorQuiet
    /\ pc = "idle"
    /\ call = NoCall
    /\ \E fk \in {Null, OldForeignKey}, trx \in {NoTrx, CallerTrx} :
         /\ parentRow = [fk |-> fk, trx |-> trx]
         /\ trxs = [t \in TrxIds |-> IF t = trx THEN OpenTrx ELSE UnusedTrx]
         /\ \E saved \in BOOLEAN :
              /\ relatedRow = [key |-> IF saved THEN SavedRelatedKey ELSE Null,
                               trx |-> NoTrx, persisted |-> saved]
              /\ db = [parentFk |-> fk,
                       related |-> IF saved THEN {SavedRelatedKey} ELSE {},
                       writes |-> <<>>]
    /\ saves = <<>>
    /\ events = <<>>
    /\ thrown = "none"

\* line 74: associate is called; managedTransaction picks the transaction
AssociateBegin ==
    /\ pc = "idle"
    /\ LET m == managedTransaction(transactionSource(parentRow))
       IN /\ call' = [op |-> "associate", trx |-> m.trx, managed |-> m.managed,
                      error |-> "none"]
          /\ trxs' = IF m.managed THEN [trxs EXCEPT ![m.trx] = OpenTrx] ELSE trxs
    /\ pc' = "associate"
    /\ UNCHANGED <<parentRow, relatedRow, db, saves, events, thrown, m2mVars, pagVars>>

\* line 75: related.$trx = trx
AssociateRelatedTrx ==
    /\ AtStep("relatedTrx")
    /\ relatedRow' = [relatedRow EXCEPT !.trx = call.trx]
    /\ Done("relatedTrx")
    /\ UNCHANGED <<pc, call, parentRow, trxs, db, saves, thrown, m2mVars, pagVars>>

\* line 76: await related.save()
AssociateRelatedSave ==
    /\ AtStep("relatedSave")
    /\ \E ok \in BOOLEAN :
         /\ saves' = Append(saves, [rec |-> "related", trx |-> relatedRow.trx, ok |-> ok])
         /\ IF ok
              THEN LET key == IF relatedRow.key = Null THEN GeneratedKey ELSE relatedRow.key
                       r == saveInto(trxs, db, relatedRow.trx,
                                     [rec |-> "related", value |-> key])
                   IN /\ relatedRow' = [relatedRow EXCEPT !.key = key, !.persisted = TRUE]
                      /\ trxs' = r.trxs
                      /\ db' = r.db
                      /\ Done("relatedSave")
                      /\ UNCHANGED <<pc, call>>
              ELSE /\ pc' = "catch"
                   /\ call' = [call EXCEPT !.error = "SaveError(related)"]
                   /\ UNCHANGED <<relatedRow, trxs, db, events>>
    /\ UNCHANGED <<parentRow, thrown, m2mVars, pagVars>>

\* line 78: this.relation.hydrateForPersistence(this.parent, related)
AssociateHydrate ==
    /\ AtStep("hydrate")
    /\ parentRow' = hydrateForPersistence(parentRow, relatedRow)
    /\ Done("hydrate")
    /\ UNCHANGED <<pc, call, relatedRow, trxs, db, saves, thrown, m2mVars, pagVars>>

\* line 79: this.parent.$trx = trx
AssociateParentTrx ==
    /\ AtStep("parentTrx")
    /\ parentRow' = [parentRow EXCEPT !.trx = call.trx]
    /\ Done("parentTrx")
    /\ UNCHANGED <<pc, call, relatedRow, trxs, db, saves, thrown, m2mVars, pagVars>>

\* line 80: await this.parent.save()
AssociateParentSave ==
    /\ AtStep("parentSave")
    /\ \E ok \in BOOLEAN :
         /\ saves' = Append(saves, [rec |-> "parent", trx |-> parentRow.trx, ok |-> ok])
         /\ IF ok
              THEN LET r == saveInto(trxs, db, parentRow.trx,
                                     [rec |-> "parent", value |-> parentRow.fk])
                   IN /\ trxs' = r.trxs
                      /\ db' = r.db
                      /\ Done("parentSave")
                      /\ UNCHANGED <<pc, call>>
              ELSE /\ pc' = "catch"
                   /\ call' = [call EXCEPT !.error = "SaveError(parent)"]
                   /\ UNCHANGED <<trxs, db, events>>
    /\ UNCHANGED <<parentRow, relatedRow, thrown, m2mVars, pagVars>>

\* the callback returned: a transaction managedTransaction opened is committed
AssociateReturn ==
    /\ AtStep("return")
    /\ LET r == IF call.managed THEN commit(trxs, db, call.trx, "associate")
                ELSE [trxs |-> trxs, db |-> db]
       IN trxs' = r.trxs /\ db' = r.db
    /\ pc' = "done"
    /\ UNCHANGED <<call, parentRow, relatedRow, saves, events, thrown, m2mVars, pagVars>>

\* the callback threw: a transaction managedTransaction opened is rolled back,
\* and the error goes on to the caller
AssociateCatch ==
    /\ pc = "catch"
    /\ LET r == IF call.managed THEN rollback(trxs, db, call.trx, "associate")
                ELSE [trxs |-> trxs, db |-> db]
       IN trxs' = r.trxs /\ db' = r.db
    /\ thrown' = call.error
    /\ pc' = "failed"
    /\ UNCHANGED <<call, parentRow, relatedRow, saves, events, m2mVars, pagVars>>

\* (mutant) dissociate leaving the foreign key as it was
clearForeignKeyNot(p) == p

\* this.parent[this.relation.foreignKey] = null
clearForeignKey(p) == [p EXCEPT !.fk = Null]

\* line 88: the foreign key is cleared
DissociateBegin ==
    /\ pc = "idle"
    /\ call' = [NoCall EXCEPT !.op = "dissociate"]
    /\ parentRow' = clearForeignKey(parentRow)
    /\ pc' = "dissociate"
    /\ UNCHANGED <<relatedRow, trxs, db, saves, events, thrown, m2mVars, pagVars>>

\* line 89: await this.parent.save()
DissociateSave ==
    /\ pc = "dissociate"
    /\ \E ok \in BOOLEAN :
         /\ saves' = Append(saves, [rec |-> "parent", trx |-> parentRow.trx, ok |-> ok])
         /\ IF ok
              THEN LET r == saveInto(trxs, db, parentRow.trx,
                                     [rec |-> "parent", value |-> parentRow.fk])
                   IN /\ trxs' = r.trxs
                      /\ db' = r.db
                      /\ pc' = "done"
                      /\ UNCHANGED thrown
              ELSE /\ pc' = "failed"
                   /\ thrown' = "SaveError(parent)"
                   /\ UNCHANGED <<trxs, db>>
    /\ UNCHANGED <<call, parentRow, relatedRow, events, m2mVars, pagVars>>

\* The caller ends the transaction it attached, once the call is over
CallerCommit ==
    /\ pc \in {"done", "failed"}
    /\ trxs[CallerTrx].state = "open"
    /\ LET r == commit(trxs, db, CallerTrx, "caller")
       IN trxs' = r.trxs /\ db' = r.db
    /\ UNCHANGED <<pc, call, parentRow, relatedRow, saves, events, thrown, m2mVars, pagVars>>

CallerRollback ==
    /\ pc \in {"done", "failed"}
    /\ trxs[CallerTrx].state = "open"
    /\ LET r == rollback(trxs, db, CallerTrx, "caller")
       IN trxs' = r.trxs /\ db' = r.db
    /\ UNCHANGED <<pc, call, parentRow, relatedRow, saves, events, thrown, m2mVars, pagVars>>

NextAssoc ==
    \/ AssociateBegin
    \/ AssociateRelatedTrx
    \/ AssociateRelatedSave
    \/ AssociateHydrate
    \/ AssociateParentTrx
    \/ AssociateParentSave
    \/ AssociateReturn
    \/ AssociateCatch
    \/ DissociateBegin
    \/ DissociateSave
    \/ CallerCommit
    \/ CallerRollback

SpecAssoc == InitAssoc /\ [][NextAssoc]_vars

----------------------------------------------------------------------------
\* Properties of associate and dissociate

IsPrefix(s, t) == Len(s) <= Len(t) /\ \A i \in 1..Len(s) : s[i] = t[i]

InEvents(name) == \E i \in 1..Len(events) : events[i] = name

Associating == call.op = "associate"

\* the transaction managedTransaction opened for this call, and the call failed
OwnTransactionFailed == Associating /\ call.managed /\ pc = "failed"

\* C7 (as claimed): when associate fails in the transaction it opened itself,
\* that transaction is rolled back, nothing it wrote is committed, the caller
\* gets the error of the failing save, and a parent foreign-key field that was
\* unset is still unset; and at no time is exactly one of the two writes
\* committed.
C7_FailedAssociateLeavesNothing ==
    /\ OwnTransactionFailed =>
         /\ trxs[ClientTrx].state = "rolledback"
         /\ db.writes = <<>>
         /\ thrown = "SaveError(" \o saves[Len(saves)].rec \o ")"
         /\ db.parentFk = Null => parentRow.fk = Null
    /\ (Associating /\ call.managed) => Len(db.writes) \in {0, 2}

\* C8: the steps of associate happen in the order related.$trx, related.save,
\* hydrate, parent.$trx, parent.save (a failed run is a prefix of it); both
\* records adopt the call's transaction; the parent's foreign key is set, and
\* the parent saved, only after a successful save of the related record; and a
\* call that returns leaves the parent's foreign key equal to the related key.
C8_AssociateOrder ==
    Associating =>
      /\ IsPrefix(events, <<"relatedTrx", "relatedSave", "hydrate", "parentTrx", "parentSave">>)
      /\ InEvents("relatedTrx") => relatedRow.trx = call.trx
      /\ InEvents("parentTrx") => parentRow.trx = call.trx /\ parentRow.trx = relatedRow.trx
      /\ InEvents("hydrate") =>
           /\ relatedRow.persisted /\ relatedRow.key # Null
           /\ parentRow.fk = relatedRow.key
           /\ saves # <<>> /\ saves[1] = [rec |-> "related", trx |-> call.trx, ok |-> TRUE]
      /\ ~InEvents("hydrate") => parentRow.fk = db.parentFk
      /\ \A i \in 1..Len(saves) :
           saves[i].rec = "parent" => i = 2 /\ saves[1].rec = "related" /\ saves[1].ok
      /\ pc = "done" =>
           /\ Len(events) = 5
           /\ parentRow.fk = relatedRow.key
           /\ relatedRow.key # Null

\* associate ran to its end on an unsaved related record
C8_Witness ==
    /\ Associating
    /\ pc = "done"
    /\ Len(events) = 5
    /\ parentRow.fk = GeneratedKey

\* the parent carried the caller's transaction when associate was called
CallerTransactionCarried == Associating /\ trxs[CallerTrx].state # "unused"

\* C9: when the parent carries the caller's transaction, every save of the
\* call runs on that transaction, client.transaction() is never called, and the
\* transaction is still open when the call ends, whether it returns or throws:
\* only the caller ever commits it or rolls it back.
C9_CallerTransactionReused ==
    CallerTransactionCarried =>
      /\ trxs[ClientTrx].state = "unused"
      /\ \A i \in 1..Len(saves) : saves[i].trx = CallerTrx
      /\ trxs[CallerTrx].endedBy # "associate"
      /\ db.writes # <<>> => trxs[CallerTrx].state = "committed"
      /\ trxs[CallerTrx].state # "open" => pc \in {"done", "failed"}

\* the parent's save failed inside the caller's transaction, which is still open
C9_Witness ==
    /\ CallerTransactionCarried
    /\ pc = "failed"
    /\ Len(saves) = 2
    /\ trxs[CallerTrx].state = "open"

Dissociated == call.op = "dissociate" /\ pc \in {"done", "failed"}

\* C10: once dissociate is over, the parent's foreign-key field is null, the
\* parent was saved with exactly one save() call, no transaction was opened and
\* nothing was written for a related record; a save that succeeded outside any
\* transaction left exactly one committed write, the null foreign key.
C10_DissociateOneWrite ==
    /\ call.op = "dissociate" => parentRow.fk = Null /\ events = <<>>
    /\ Dissociated =>
         /\ Len(saves) = 1
         /\ saves[1].rec = "parent"
         /\ trxs[ClientTrx].state = "unused"
         /\ \A i \in 1..Len(db.writes) : db.writes[i].rec = "parent"
         /\ \A t \in TrxIds : \A i \in 1..Len(trxs[t].writes) :
              trxs[t].writes[i] = [rec |-> "parent", value |-> Null]
         /\ (pc = "done" /\ parentRow.trx = NoTrx) =>
              db.writes = << [rec |-> "parent", value |-> Null] >> /\ db.parentFk = Null
         /\ (pc = "done" /\ trxs[CallerTrx].state = "open") =>
              trxs[CallerTrx].writes = << [rec |-> "parent", value |-> Null] >>

\* dissociate cleared a foreign key the parent held and committed the one write
C10_Witness ==
    /\ Dissociated
    /\ pc = "done"
    /\ parentRow.trx = NoTrx
    /\ db.parentFk = Null
    /\ Len(db.writes) = 1

----------------------------------------------------------------------------
\* SimplePaginator
\*
\* A url is a sequence of tokens: <<"/posts", "?", "page", "=", "2">> is
\* `/posts?page=2`. An object (the query-string map) is a sequence of
\* <<key, value>> pairs in insertion order; a value is Val(string), Num(n)
\* or Undefined.

Num(n) == <<"num", n>>

Max(a, b) == IF a >= b THEN a ELSE b

\* Number(value): a number as it is, a numeric string (the count a driver
\* reports as text) parsed
Number(value) ==
    IF value[1] = "num" THEN value[2]
    ELSE CHOOSE n \in 0..(MaxTotal + 100) : ToString(n) = value[2]

\* Math.ceil(a / b) for a >= 0, b >= 1
ceil(a, b) == IF a % b = 0 THEN a \div b ELSE (a \div b) + 1

\* (mutant) lastPage without its floor of 1
lastPageUnfloored(total, perPage) == ceil(total, perPage)

\* Math.max(Math.ceil(this.total / this.perPage), 1)
lastPage(total, perPage) == Max(ceil(total, perPage), 1)

\* (mutant) hasMorePages true on the last page as well
hasMorePagesInclusive(last, currentPage) == last >= currentPage

\* this.lastPage > this.currentPage
hasMorePages(last, currentPage) == last > currentPage

\* new SimplePaginator(totalNumber, perPage, currentPage, ...rows)
NewPaginator(totalNumber, perPage, currentPage, rows) ==
    LET total == Number(totalNumber)
        last == lastPage(total, perPage)
    IN [constructed |-> TRUE,
        qs |-> <<>>,
        url |-> "/",
        rows |-> rows,
        firstPage |-> 1,
        isEmpty |-> (Len(rows) = 0),
        total |-> total,
        hasTotal |-> (total > 0),
        lastPage |-> last,
        hasMorePages |-> hasMorePages(last, currentPage),
        hasPages |-> (last # 1),
        totalNumber |-> totalNumber,
        perPage |-> perPage,
        currentPage |-> currentPage]

all(p) == p.rows

\* Object.assign({}, object, { [key]: value }): an existing key keeps its
\* place and takes the new value, a new key goes last
objectAssign(object, key, value) ==
    IF \E i \in 1..Len(object) : object[i][1] = key
      THEN [i \in 1..Len(object) |->
              IF object[i][1] = key THEN <<key, value>> ELSE object[i]]
      ELSE Append(object, <<key, value>>)

\* encodeURIComponent on the strings in use
encodeURIComponent(str) == IF str = "name asc" THEN "name%20asc" ELSE str

\* the text of a value in a query string
valueText(value) ==
    IF value[1] = "num" THEN ToString(value[2]) ELSE encodeURIComponent(value[2])

RECURSIVE joinPairs(_)
joinPairs(pairs) ==
    IF pairs = <<>> THEN <<>>
    ELSE LET first == << encodeURIComponent(pairs[1][1]), "=", valueText(pairs[1][2]) >>
         IN IF Len(pairs) = 1 THEN first
            ELSE first \o <<"&">> \o joinPairs(Tail(pairs))

\* stringify(object) of qs: key=value joined by &, a key whose value is
\* undefined left out
stringify(object) ==
    joinPairs(SelectSeq(object, LAMBDA pair : pair[2] # Undefined))

\* (mutant) getUrl letting the stored query string win over the page asked for
getUrlStoredFirst(p, page) ==
    LET target == Num(IF page < 1 THEN 1 ELSE page)
        merged == IF \E i \in 1..Len(p.qs) : p.qs[i][1] = "page"
                    THEN p.qs ELSE objectAssign(p.qs, "page", target)
    IN <<p.url, "?">> \o stringify(merged)

getUrl(p, page) ==
    LET qs == stringify(objectAssign(p.qs, "page", Num(IF page < 1 THEN 1 ELSE page)))
    IN <<p.url, "?">> \o qs

\* null, where a url is expected
NoUrl == <<"null">>

getNextPageUrl(p) ==
    IF p.hasMorePages THEN getUrl(p, p.currentPage + 1) ELSE NoUrl

getPreviousPageUrl(p) ==
    IF p.currentPage > 1 THEN getUrl(p, p.currentPage - 1) ELSE NoUrl

\* for (let i = start; i <= end; i++) urls.push(...)
RECURSIVE urlsLoop(_, _, _, _)
urlsLoop(p, i, end, urls) ==
    IF i <= end
      THEN urlsLoop(p, i + 1, end,
                    Append(urls, [url |-> getUrl(p, i), page |-> i,
                                  isActive |-> (i = p.currentPage)]))
      ELSE urls

\* (mutant) a range that stops one page short of its end
getUrlsForRangeExclusive(p, start, end) == urlsLoop(p, start, end - 1, <<>>)

getUrlsForRange(p, start, end) == urlsLoop(p, start, end, <<>>)

\* getMeta(): the keys are those of the naming strategy
getMeta(p) ==
    [total |-> p.total,
     perPage |-> p.perPage,
     currentPage |-> p.currentPage,
     lastPage |-> p.lastPage,
     firstPage |-> p.firstPage,
     firstPageUrl |-> getUrl(p, 1),
     lastPageUrl |-> getUrl(p, p.lastPage),
     nextPageUrl |-> getNextPageUrl(p),
     previousPageUrl |-> getPreviousPageUrl(p)]

toJSON(p) == [meta |-> getMeta(p), data |-> all(p)]

\* (mutant) a baseUrl setter that also rewinds the paginator to its first page
baseUrlRewinding(p, url) == [p EXCEPT !.url = url, !.currentPage = 1]

baseUrl(p, url) == [p EXCEPT !.url = url]

queryString(p, values) == [p EXCEPT !.qs = values]

----------------------------------------------------------------------------
\* The paginator as a state machine

\* The totals a count query reports, as a number or as text
TotalCounts == 0..MaxTotal \cup {95}
TotalNumbers == { Num(n) : n \in TotalCounts } \cup { Val(ToString(n)) : n \in TotalCounts }
PerPages == 1..MaxPerPage \cup {DefaultPerPage}
\* currentPage >= 1 is the caller's contract; a page past the last one is not excluded
CurrentPages == 1..MaxPage
RowSlices == { <<>>, <<"row">> }

BaseUrls == { "/", "/posts" }
QueryStrings ==
    { <<>>,
      << <<"sort", Val("name asc")>> >>,
      << <<"page", Val("7")>>, <<"sort", Val("id")>> >>,
      << <<"search", Undefined>>, <<"sort", Val("id")>> >> }

PageArgs == (0 - 1)..(MaxPage + 1)
RangeArgs == 0..(MaxPage + 1)

InitPaginator ==
    /\ M2MQuiet
    /\ AssocQuiet
    /\ \E totalNumber \in TotalNumbers, perPage \in PerPages,
          currentPage \in CurrentPages, rows \in RowSlices :
         /\ Len(rows) <= Number(totalNumber)
         /\ Len(rows) <= perPage
         /\ currentPage > lastPage(Number(totalNumber), perPage) => rows = <<>>
         /\ paginator = NewPaginator(totalNumber, perPage, currentPage, rows)
    /\ returned = NoReturn

Return(op, value) ==
    /\ returned' = [op |-> op, value |-> value]
    /\ UNCHANGED <<m2mVars, assocVars>>

BaseUrl ==
    \E url \in BaseUrls :
       /\ paginator' = baseUrl(paginator, url)
       /\ Return("baseUrl", <<"this">>)

QueryString ==
    \E values \in QueryStrings :
       /\ paginator' = queryString(paginator, values)
       /\ Return("queryString", <<"this">>)

GetUrl ==
    \E page \in PageArgs :
       /\ Return("getUrl", getUrl(paginator, page))
       /\ UNCHANGED paginator

GetNextPageUrl ==
    /\ Return("getNextPageUrl", getNextPageUrl(paginator))
    /\ UNCHANGED paginator

GetPreviousPageUrl ==
    /\ Return("getPreviousPageUrl", getPreviousPageUrl(paginator))
    /\ UNCHANGED paginator

GetUrlsForRange ==
    \E start \in RangeArgs, end \in RangeArgs :
       /\ Return("getUrlsForRange", getUrlsForRange(paginator, start, end))
       /\ UNCHANGED paginator

GetMeta ==
    /\ Return("getMeta", getMeta(paginator))
    /\ UNCHANGED paginator

ToJSON ==
    /\ Return("toJSON", toJSON(paginator))
    /\ UNCHANGED paginator

NextPaginator ==
    \/ BaseUrl
    \/ QueryString
    \/ GetUrl
    \/ GetNextPageUrl
    \/ GetPreviousPageUrl
    \/ GetUrlsForRange
    \/ GetMeta
    \/ ToJSON

SpecPaginator == InitPaginator /\ [][NextPaginator]_vars

----------------------------------------------------------------------------
\* Properties of the paginator

\* Reading a url back: the tokens after the first "?", split at "&" and "="
QueryOf(url) ==
    LET at == CHOOSE i \in 1..Len(url) :
                 url[i] = "?" /\ \A j \in 1..(i - 1) : url[j] # "?"
    IN SubSeq(url, at + 1, Len(url))

decodeURIComponent(str) == IF str = "name%20asc" THEN "name asc" ELSE str

RECURSIVE parsePairs(_)
parsePairs(tokens) ==
    IF Len(tokens) < 3 THEN <<>>
    ELSE << <<decodeURIComponent(tokens[1]), decodeURIComponent(tokens[3])>> >>
           \o parsePairs(SubSeq(tokens, 5, Len(tokens)))

Parsed(url) == parsePairs(QueryOf(url))

HasKey(pairs, key) == \E i \in 1..Len(pairs) : pairs[i][1] = key

ValueOf(pairs, key) == pairs[CHOOSE i \in 1..Len(pairs) : pairs[i][1] = key][2]

\* The page number a url carries (-1 when it carries none that reads as a page)
PageOf(url) ==
    LET pairs == Parsed(url)
    IN IF HasKey(pairs, "page")
            /\ \E n \in 0..(MaxPage + 2) : ToString(n) = ValueOf(pairs, "page")
         THEN CHOOSE n \in 0..(MaxPage + 2) : ToString(n) = ValueOf(pairs, "page")
         ELSE 0 - 1

\* C11: for every paginator constructed with total >= 0 and perPage >= 1,
\* lastPage is max(ceil(total / perPage), 1): at least 1, the least number of
\* pages of perPage rows that hold total rows; it is 1 when total is 0, and 5
\* for total = 95 and perPage = 20.
C11_LastPageIsCeilFlooredAtOne ==
    (paginator.total >= 0 /\ paginator.perPage >= 1) =>
      /\ paginator.lastPage >= 1
      /\ paginator.lastPage * paginator.perPage >= paginator.total
      /\ paginator.lastPage > 1 =>
           (paginator.lastPage - 1) * paginator.perPage < paginator.total
      /\ paginator.total = 0 => paginator.lastPage = 1
      /\ (paginator.total = 95 /\ paginator.perPage = 20) => paginator.lastPage = 5

\* a paginator constructed over 95 records, 20 to a page
C11_Witness ==
    /\ paginator.constructed
    /\ paginator.total = 95
    /\ paginator.perPage = 20
    /\ paginator.lastPage = 5

\* C12: getPreviousPageUrl() is null exactly when currentPage <= 1 and is
\* otherwise the url of page currentPage - 1; getNextPageUrl() is null exactly
\* when lastPage <= currentPage (hasMorePages false) and is otherwise the url
\* of page currentPage + 1; both return a value on every paginator.
C12_NavigationUrls ==
    LET prev == getPreviousPageUrl(paginator)
        next == getNextPageUrl(paginator)
    IN /\ (prev = NoUrl) <=> (paginator.currentPage <= 1)
       /\ prev # NoUrl =>
            /\ prev = getUrl(paginator, paginator.currentPage - 1)
            /\ PageOf(prev) = paginator.currentPage - 1
       /\ paginator.hasMorePages <=> (paginator.lastPage > paginator.currentPage)
       /\ (next = NoUrl) <=> (paginator.lastPage <= paginator.currentPage)
       /\ next # NoUrl =>
            /\ next = getUrl(paginator, paginator.currentPage + 1)
            /\ PageOf(next) = paginator.currentPage + 1
       /\ returned.op = "getNextPageUrl" => returned.value = next
       /\ returned.op = "getPreviousPageUrl" => returned.value = prev

\* getNextPageUrl() returned a url on a paginator that also has a previous page
C12_Witness ==
    /\ returned.op = "getNextPageUrl"
    /\ returned.value # NoUrl
    /\ PageOf(returned.value) = paginator.currentPage + 1
    /\ paginator.currentPage > 1

C14_UrlsForRange ==
    /\ \A start \in RangeArgs, end \in RangeArgs :
         LET urls == getUrlsForRange(paginator, start, end)
         IN /\ Len(urls) = Max(end - start + 1, 0)
            /\ \A i \in 1..Len(urls) :
                 /\ urls[i].page = start + i - 1
                 /\ urls[i].isActive <=> (urls[i].page = paginator.currentPage)
                 /\ urls[i].url = getUrl(paginator, urls[i].page)
                 /\ PageOf(urls[i].url) = Max(urls[i].page, 1)
    /\ paginator.currentPage = 3 =>
         LET urls == getUrlsForRange(paginator, 2, 4)
         IN /\ [i \in 1..Len(urls) |-> urls[i].page] = <<2, 3, 4>>
            /\ [i \in 1..Len(urls) |-> urls[i].isActive] = <<FALSE, TRUE, FALSE>>

\* getUrlsForRange(2, 4) returned its three entries on a paginator at page 3
C14_Witness ==
    /\ returned.op = "getUrlsForRange"
    /\ paginator.currentPage = 3
    /\ Len(returned.value) = 3
    /\ returned.value[1].page = 2
    /\ returned.value[2].isActive
    /\ ~returned.value[3].isActive

\* The data of the paginator: what construction fixed
DataOf(p) ==
    [total |-> p.total, perPage |-> p.perPage, currentPage |-> p.currentPage,
     firstPage |-> p.firstPage, lastPage |-> p.lastPage, isEmpty |-> p.isEmpty,
     hasTotal |-> p.hasTotal, hasMorePages |-> p.hasMorePages,
     hasPages |-> p.hasPages, rows |-> p.rows]

\* C15: every call of baseUrl, queryString, getUrl, getNextPageUrl,
\* getPreviousPageUrl, getUrlsForRange, getMeta and toJSON leaves total,
\* perPage, currentPage, firstPage, lastPage, isEmpty, hasTotal, hasMorePages,
\* hasPages and the row slice as they were (so, as construction set them); a
\* setter changes the base url or the query string only, and the other calls
\* change nothing of the paginator.
C15_CallsLeaveDataUnchanged ==
    [][ /\ DataOf(paginator)' = DataOf(paginator)
        /\ returned'.op = "baseUrl" => paginator'.qs = paginator.qs
        /\ returned'.op = "queryString" => paginator'.url = paginator.url
        /\ returned'.op \notin {"baseUrl", "queryString"} => paginator' = paginator
      ]_vars

\* both setters were used and toJSON() was then called on the paginator
C15_Witness ==
    /\ returned.op = "toJSON"
    /\ paginator.url = "/posts"
    /\ paginator.qs # <<>>
    /\ returned.value.meta.total = paginator.total
    /\ returned.value.data = paginator.rows

\* C18 (as claimed): on every paginator with total >= 0, perPage >= 1 and
\* currentPage >= 1 (a currentPage past lastPage included), a url returned by
\* getNextPageUrl() or getPreviousPageUrl() carries a page within 1..lastPage.
C18_NavigationStaysWithinPages ==
    (paginator.total >= 0 /\ paginator.perPage >= 1 /\ paginator.currentPage >= 1) =>
      \A url \in { getNextPageUrl(paginator), getPreviousPageUrl(paginator) } :
         url # NoUrl => PageOf(url) \in 1..paginator.lastPage

====
